---- MODULE Spec2Model ----
\* Model of papertool's artifact download pipeline: Download (pre-flight
\* destination handling, streamed transfer, checksum verification) and the
\* StatusWriter that counts and hashes the bytes flowing to the destination.
EXTENDS Integers, Sequences, FiniteSets, TLC

\* ------------------------------------------------------------------ bounds
\* largest number of Write calls the streaming copy makes in one transfer
MaxChunks == 3
\* largest number of Download invocations in one behaviour
MaxDownloads == 2
\* largest number of builds in the metadata of one version
MaxBuilds == 3
\* largest number of Write calls in a transfer started from the command line
CliMaxChunks == 1

\* ------------------------------------------------------- program constants
\* statuswriter.go:48  "sw.total-sw.last >= 256*1000"
Threshold == 256 * 1000

\* --------------------------------------------------------------- pointers
\* A Go pointer is a sequence of length 0 (nil) or 1 (the pointee).
Nil == <<>>
Ptr(v) == <<v>>
Deref(p) == p[1]

\* A Go string is a sequence of characters (of name parts, for file names);
\* "" is the empty sequence.
\* papertool.String(*string): the pointee, or "" for a nil pointer.
String(p) == IF p = Nil THEN <<>> ELSE Deref(p)

\* ------------------------------------------------------------ byte streams
\* A chunk handed to Write is a run of n copies of the byte b; the content of a
\* stream is the sequence of maximal runs, so two chunkings of the same bytes
\* have the same content.
Chunks ==
    { [b |-> "a", n |-> 0], [b |-> "a", n |-> 1], [b |-> "a", n |-> Threshold - 1],
      [b |-> "a", n |-> Threshold], [b |-> "b", n |-> 1] }

EmptyContent == <<>>

\* the bytes of content followed by the bytes of the chunk data
AppendBytes(content, data) ==
    IF data.n = 0 THEN content
    ELSE IF content # <<>> /\ content[Len(content)].b = data.b
         THEN [content EXCEPT ![Len(content)].n = @ + data.n]
         ELSE Append(content, data)

RECURSIVE ContentLen(_)
\* number of bytes of a content
ContentLen(content) ==
    IF content = <<>> THEN 0 ELSE content[1].n + ContentLen(Tail(content))

RECURSIVE Flatten(_)
\* the content made of the chunks, in order
Flatten(chunks) ==
    IF chunks = <<>> THEN EmptyContent
    ELSE AppendBytes(Flatten(SubSeq(chunks, 1, Len(chunks) - 1)), chunks[Len(chunks)])

RECURSIVE SumLens(_)
\* sum of the lengths of the chunks
SumLens(chunks) ==
    IF chunks = <<>> THEN 0 ELSE chunks[1].n + SumLens(Tail(chunks))

\* ------------------------------------------------------------ hash.Hash
\* sha256.New(): SHA-256 is modelled as a collision-free incremental digest:
\* its state is the content absorbed so far; writes logs the chunks received.
NewHash == [state |-> EmptyContent, writes |-> <<>>]

\* hash.Hash.Write(data)
HashWrite(h, data) ==
    [state |-> AppendBytes(h.state, data), writes |-> Append(h.writes, data)]

HexDigits == <<"0", "1", "2", "3", "4", "5", "6", "7", "8", "9", "a", "b", "c", "d", "e", "f">>

RECURSIVE HexN(_, _)
\* n in lowercase hexadecimal, w digits wide
HexN(n, w) ==
    IF w = 0 THEN <<>> ELSE Append(HexN(n \div 16, w - 1), HexDigits[(n % 16) + 1])

RECURSIVE HexRuns(_)
HexRuns(content) ==
    IF content = <<>> THEN <<>>
    ELSE <<content[1].b>> \o HexN(content[1].n, 6) \o HexRuns(Tail(content))

\* fmt.Sprintf("%x", h.Sum(nil)): the digest as a string of lowercase hex
\* characters, never empty, different for different contents.
SumHex(h) == <<"e", "3">> \o HexRuns(h.state)

\* the same string in uppercase (a checksum the metadata could carry)
ToUpper(s) ==
    [i \in DOMAIN s |->
        CASE s[i] = "a" -> "A" [] s[i] = "b" -> "B" [] s[i] = "c" -> "C"
          [] s[i] = "d" -> "D" [] s[i] = "e" -> "E" [] s[i] = "f" -> "F"
          [] OTHER -> s[i]]

\* digest of a content absorbed in one piece per run
ContentDigest(content) == SumHex([state |-> content, writes |-> <<>>])

\* ------------------------------------------------------------- artifacts
\* the content whose digest the metadata of the modelled build advertises
RefContent == <<[b |-> "a", n |-> Threshold]>>

\* Application.Sha256: absent, empty, the digest, the digest in uppercase
ExpectedShas ==
    { Nil, Ptr(<<>>), Ptr(ContentDigest(RefContent)), Ptr(ToUpper(ContentDigest(RefContent))) }

\* an artifact with the given name and checksum pointers
Art(nm, sh) == Ptr([Application |-> Ptr([Name |-> nm, Sha256 |-> sh])])

\* *Artifact values Download can be handed
Artifacts ==
    { Nil, Ptr([Application |-> Nil]), Art(Nil, Nil), Art(Ptr(<<>>), Nil) }
    \cup { Art(Ptr(<<"app.jar">>), sh) : sh \in ExpectedShas }

\* failures the filesystem can inject into one invocation
Faults == { "none", "stat", "remove" }

\* ------------------------------------------------------------------ state
VARIABLES
    pc,          \* "idle" | "transfer" (inside dlstream.DownloadStream) | "done"
    calls,       \* number of Download invocations so far
    args,        \* arguments of the current invocation: artifact, replace, quiet
    fs,          \* the destination: dir (dstdir exists), file (Nil or Ptr(content))
    sw,          \* the StatusWriter of the current invocation
    written,     \* chunks the streaming copy has passed to sw.Write, in order
    lastN,       \* the count returned by the last sw.Write
    out,         \* lines printed to stdout by the current invocation
    ops,         \* filesystem and network operations of the current invocation
    result,      \* what the current invocation returned
    fileAtStart, \* fs.file when the current invocation called DownloadStream
    prevOk       \* the previous invocation returned nil

dlVars ==
    <<pc, calls, args, fs, sw, written, lastN, out, ops, result, fileAtStart,
      prevOk>>

\* Two transfers of one chunk sequence for one artifact, the first quiet, the
\* second not (the TwinSpec specification).
VARIABLES
    twinPc,      \* "transfer" | "done"
    twinArt,     \* the artifact both invocations are given
    twinSw,      \* quiet |-> the StatusWriter of that invocation
    twinFed,     \* number of chunks both invocations have received
    twinRes      \* quiet |-> what that invocation returned

twinVars == <<twinPc, twinArt, twinSw, twinFed, twinRes>>

\* One application of FindBuildIndex and FindBuild (the FindSpec specification).
VARIABLES
    fbPc,        \* "input" | "done"
    fbBuilds,    \* builds.Builds
    fbArg,       \* the build argument
    fbIdx,       \* what FindBuildIndex returned
    fbBuild      \* what FindBuild returned

findVars == <<fbPc, fbBuilds, fbArg, fbIdx, fbBuild>>

\* One run of the command line tool (the CliSpec specification).
VARIABLES
    cliPc,       \* "start" | "get" | "loop" | "download" | "inDownload" | "exit"
    cliFlags,    \* the parsed flags -server, -project and the subcommand used
    cliBuild,    \* the -build flag of the subcommand that runs
    cliBuilds,   \* builds.Builds while the get handler lists them
    cliCur,      \* currentBuildIndex
    cliFinal,    \* finalBuildIndex
    cliPrinted,  \* indexes of the builds printed so far, in order
    cliHandlers, \* subcommand handlers run so far, in order
    cliMsgs,     \* messages shown with ShowHelpWithMessage, in order
    cliExit,     \* exit status of the process, NotExited while it runs
    cliSrc,      \* path segments of the source URL Download requested
    cliArtBuild  \* build number of the build whose artifact Download was given

cliVars ==
    <<cliPc, cliFlags, cliBuild, cliBuilds, cliCur, cliFinal, cliPrinted, cliHandlers,
      cliMsgs, cliExit, cliSrc, cliArtBuild>>

vars == <<dlVars, twinVars, findVars, cliVars>>

\* --------------------------------------------------------- StatusWriter
\* NewStatusWriter(name, quiet); the printer, the number format and the start
\* time only shape the text of the lines and are left out.
NewStatusWriter(quiet) ==
    [last |-> 0, total |-> 0, quiet |-> quiet, sha256 |-> NewHash]

\* mutant: a quiet writer counts the bytes but does not hash them
WriteQuietSkipsHash(w, data) ==
    LET total == w.total + data.n
        h     == IF w.quiet THEN w.sha256 ELSE HashWrite(w.sha256, data)
        emit  == ~w.quiet /\ total - w.last >= Threshold
    IN  [sw   |-> [w EXCEPT !.total = total, !.sha256 = h,
                            !.last = IF emit THEN total ELSE w.last],
         n    |-> data.n,
         emit |-> emit]

\* mutant: a quiet writer returns before counting and hashing
WriteQuietReturnsEarly(w, data) ==
    LET total == IF w.quiet THEN w.total ELSE w.total + data.n
        h     == IF w.quiet THEN w.sha256 ELSE HashWrite(w.sha256, data)
        emit  == ~w.quiet /\ total - w.last >= Threshold
    IN  [sw   |-> [w EXCEPT !.total = total, !.sha256 = h,
                            !.last = IF emit THEN total ELSE w.last],
         n    |-> data.n,
         emit |-> emit]

\* mutant: total is set to the length of the chunk instead of growing by it
WriteAssignsTotal(w, data) ==
    LET total == data.n
        h     == HashWrite(w.sha256, data)
        emit  == ~w.quiet /\ total - w.last >= Threshold
    IN  [sw   |-> [w EXCEPT !.total = total, !.sha256 = h,
                            !.last = IF emit THEN total ELSE w.last],
         n    |-> data.n,
         emit |-> emit]

\* mutant: the progress line needs more than the threshold
WriteStrictThreshold(w, data) ==
    LET total == w.total + data.n
        h     == HashWrite(w.sha256, data)
        emit  == ~w.quiet /\ total - w.last > Threshold
    IN  [sw   |-> [w EXCEPT !.total = total, !.sha256 = h,
                            !.last = IF emit THEN total ELSE w.last],
         n    |-> data.n,
         emit |-> emit]

\* mutant: an emission advances last by the threshold instead of to total
WriteLastAdvancesByThreshold(w, data) ==
    LET total == w.total + data.n
        h     == HashWrite(w.sha256, data)
        emit  == ~w.quiet /\ total - w.last >= Threshold
    IN  [sw   |-> [w EXCEPT !.total = total, !.sha256 = h,
                            !.last = IF emit THEN w.last + Threshold ELSE w.last],
         n    |-> data.n,
         emit |-> emit]

\* StatusWriter.Write(data): the writer afterwards, the returned count and
\* whether a progress line was printed
Write(w, data) ==
    LET total == w.total + data.n
        h     == HashWrite(w.sha256, data)
        emit  == ~w.quiet /\ total - w.last >= Threshold
    IN  [sw   |-> [w EXCEPT !.total = total, !.sha256 = h,
                            !.last = IF emit THEN total ELSE w.last],
         n    |-> data.n,
         emit |-> emit]

\* ------------------------------------------------------------ Download
NoResult == [kind |-> "none", computed |-> <<>>, expected |-> <<>>]
Err(kind) == [kind |-> kind, computed |-> <<>>, expected |-> <<>>]

\* the nil checks that open Download
BadArtifact(artifact) ==
    \/ artifact = Nil
    \/ Deref(artifact).Application = Nil
    \/ Deref(Deref(artifact).Application).Name = Nil

ArtName(artifact) == String(Deref(Deref(artifact).Application).Name)
ArtSha(artifact) == String(Deref(Deref(artifact).Application).Sha256)

\* os.Stat(dst) for dst = dstdir/name: with an empty name dst is the
\* directory itself; fault is a failure such as a permission error
Stat(f, name, fault) ==
    IF fault THEN "error"
    ELSE IF ~f.dir THEN "notexist"
    ELSE IF name = <<>> THEN "ok"
    ELSE IF f.file # Nil THEN "ok" ELSE "notexist"

\* os.Remove(dst): the result and the filesystem afterwards; a directory is
\* removed only when it is empty
Remove(f, name, fault) ==
    IF fault THEN [res |-> "error", fs |-> f]
    ELSE IF name = <<>>
         THEN IF f.file = Nil THEN [res |-> "ok", fs |-> [dir |-> FALSE, file |-> Nil]]
                              ELSE [res |-> "error", fs |-> f]
         ELSE [res |-> "ok", fs |-> [f EXCEPT !.file = Nil]]

\* mutant: the digests are compared without regard to case
VerifyIgnoresCase(hash, artifact) ==
    LET expected == ArtSha(artifact)
    IN  IF expected = <<>> THEN Err("ok")
        ELSE IF ToUpper(hash) # ToUpper(expected)
             THEN [kind |-> "ChecksumMismatch", computed |-> hash, expected |-> expected]
             ELSE Err("ok")

\* the comparison that closes Download
Verify(hash, artifact) ==
    LET expected == ArtSha(artifact)
    IN  IF expected = <<>> THEN Err("ok")
        ELSE IF hash # expected
             THEN [kind |-> "ChecksumMismatch", computed |-> hash, expected |-> expected]
             ELSE Err("ok")

Op(op, res) == [op |-> op, res |-> res]

\* the destination file can be created and written
CanWrite(f, artifact) == f.dir /\ ArtName(artifact) # <<>>

\* DownloadStream opening the destination: created if absent, otherwise kept
OpenFile(f, artifact) ==
    IF CanWrite(f, artifact) /\ f.file = Nil THEN [f EXCEPT !.file = Ptr(EmptyContent)] ELSE f

\* a pre-flight outcome: kind "" lets the transfer begin, any other kind is
\* the error Download returns; log lists the filesystem operations made
Outcome(kind, log, f) == [kind |-> kind, log |-> log, fs |-> f]

\* mutant: the destination is overwritten whether or not replace is set
PreflightIgnoresReplace(f, artifact, replace, fault) ==
    IF BadArtifact(artifact) THEN Outcome("BadArtifact", <<>>, f)
    ELSE LET name == ArtName(artifact)
             st   == Stat(f, name, fault = "stat")
             rm   == Remove(f, name, fault = "remove")
         IN  CASE st = "ok" /\ rm.res # "ok" ->
                    Outcome("FilesystemError", <<Op("stat", st), Op("remove", rm.res)>>, rm.fs)
               [] st = "ok" /\ rm.res = "ok" ->
                    Outcome("", <<Op("stat", st), Op("remove", rm.res)>>, rm.fs)
               [] st = "notexist" -> Outcome("", <<Op("stat", st)>>, f)
               [] OTHER -> Outcome("FilesystemError", <<Op("stat", st)>>, f)

\* mutant: an existing destination is not removed before the transfer
PreflightKeepsFile(f, artifact, replace, fault) ==
    IF BadArtifact(artifact) THEN Outcome("BadArtifact", <<>>, f)
    ELSE LET name == ArtName(artifact)
             st   == Stat(f, name, fault = "stat")
         IN  CASE st = "ok" /\ ~replace ->
                    Outcome("DestinationExists", <<Op("stat", st)>>, f)
               [] st = "ok" /\ replace -> Outcome("", <<Op("stat", st)>>, f)
               [] st = "notexist" -> Outcome("", <<Op("stat", st)>>, f)
               [] OTHER -> Outcome("FilesystemError", <<Op("stat", st)>>, f)

\* mutant: every error of os.Stat is taken for "file not found"
PreflightAnyStatErrIsNotExist(f, artifact, replace, fault) ==
    IF BadArtifact(artifact) THEN Outcome("BadArtifact", <<>>, f)
    ELSE LET name == ArtName(artifact)
             st   == Stat(f, name, fault = "stat")
             rm   == Remove(f, name, fault = "remove")
         IN  CASE st = "ok" /\ ~replace ->
                    Outcome("DestinationExists", <<Op("stat", st)>>, f)
               [] st = "ok" /\ replace /\ rm.res # "ok" ->
                    Outcome("FilesystemError", <<Op("stat", st), Op("remove", rm.res)>>, rm.fs)
               [] st = "ok" /\ replace /\ rm.res = "ok" ->
                    Outcome("", <<Op("stat", st), Op("remove", rm.res)>>, rm.fs)
               [] OTHER -> Outcome("", <<Op("stat", st)>>, f)

\* Download up to the construction of the StatusWriter: the artifact check,
\* os.Stat of the destination and, under replace, os.Remove
Preflight(f, artifact, replace, fault) ==
    IF BadArtifact(artifact) THEN Outcome("BadArtifact", <<>>, f)
    ELSE LET name == ArtName(artifact)
             st   == Stat(f, name, fault = "stat")
             rm   == Remove(f, name, fault = "remove")
         IN  CASE st = "ok" /\ ~replace ->
                    Outcome("DestinationExists", <<Op("stat", st)>>, f)
               [] st = "ok" /\ replace /\ rm.res # "ok" ->
                    Outcome("FilesystemError", <<Op("stat", st), Op("remove", rm.res)>>, rm.fs)
               [] st = "ok" /\ replace /\ rm.res = "ok" ->
                    Outcome("", <<Op("stat", st), Op("remove", rm.res)>>, rm.fs)
               [] st = "notexist" -> Outcome("", <<Op("stat", st)>>, f)
               [] OTHER -> Outcome("FilesystemError", <<Op("stat", st)>>, f)

DlInit ==
    /\ pc = "idle"
    /\ calls = 0
    /\ args = [artifact |-> Nil, replace |-> FALSE, quiet |-> FALSE]
    /\ fs = [dir |-> TRUE, file |-> Nil]
    /\ sw = NewStatusWriter(FALSE)
    /\ written = <<>>
    /\ lastN = 0
    /\ out = <<>>
    /\ ops = <<>>
    /\ result = NoResult
    /\ fileAtStart = Nil
    /\ prevOk = FALSE

\* Download is called: the pre-flight handling, then either the error is
\* returned or the StatusWriter is made and dlstream.DownloadStream is entered
DownloadCall(artifact, replace, quiet, fault) ==
    /\ pc \in {"idle", "done"}
    /\ calls < MaxDownloads
    /\ calls' = calls + 1
    /\ args' = [artifact |-> artifact, replace |-> replace, quiet |-> quiet]
    /\ prevOk' = (result.kind = "ok")
    /\ sw' = NewStatusWriter(quiet)
    /\ written' = <<>>
    /\ lastN' = 0
    /\ out' = <<>>
    /\ LET pre == Preflight(fs, artifact, replace, fault)
       IN  IF pre.kind # ""
           THEN /\ pc' = "done"
                /\ result' = Err(pre.kind)
                /\ ops' = pre.log
                /\ fs' = pre.fs
                /\ fileAtStart' = Nil
           ELSE /\ pc' = "transfer"
                /\ result' = NoResult
                /\ ops' = Append(pre.log, Op("stream", "started"))
                /\ fileAtStart' = pre.fs.file
                /\ fs' = OpenFile(pre.fs, artifact)

Line(kind, bytes) == [kind |-> kind, bytes |-> bytes]

\* the streaming copy writes one chunk to the destination file and to sw
StreamChunk(data) ==
    /\ pc = "transfer"
    /\ CanWrite(fs, args.artifact)
    /\ Len(written) < MaxChunks
    /\ LET r == Write(sw, data)
       IN  /\ sw' = r.sw
           /\ lastN' = r.n
           /\ out' = IF r.emit THEN Append(out, Line("progress", r.sw.total)) ELSE out
    /\ written' = Append(written, data)
    /\ fs' = [fs EXCEPT !.file = Ptr(AppendBytes(Deref(fs.file), data))]
    /\ UNCHANGED <<pc, calls, args, ops, result, fileAtStart, prevOk>>

\* DownloadStream returns an error: Download returns it
StreamFail ==
    /\ pc = "transfer"
    /\ pc' = "done"
    /\ result' = Err("TransferFailed")
    /\ UNCHANGED <<calls, args, fs, sw, written, lastN, out, ops, fileAtStart,
                   prevOk>>

\* mutant: the destination file is removed when the checksum disagrees
StreamEndRemovesOnMismatch ==
    /\ pc = "transfer"
    /\ CanWrite(fs, args.artifact)
    /\ pc' = "done"
    /\ out' = Append(out, Line("summary", sw.total))
    /\ result' = Verify(SumHex(sw.sha256), args.artifact)
    /\ fs' = IF result'.kind = "ChecksumMismatch" THEN [fs EXCEPT !.file = Nil] ELSE fs
    /\ UNCHANGED <<calls, args, sw, written, lastN, ops, fileAtStart, prevOk>>

\* DownloadStream returns nil: the summary line and the checksum comparison
StreamEnd ==
    /\ pc = "transfer"
    /\ CanWrite(fs, args.artifact)
    /\ pc' = "done"
    /\ out' = Append(out, Line("summary", sw.total))
    /\ result' = Verify(SumHex(sw.sha256), args.artifact)
    /\ UNCHANGED <<calls, args, fs, sw, written, lastN, ops, fileAtStart,
                   prevOk>>

\* ------------------------------------------------------- build metadata
\* Build records of the metadata: build number and artifact; a record can
\* lack either
BuildRecs ==
    { [Build |-> Ptr(<<"1">>), Artifact |-> Art(Ptr(<<"app.jar">>), Nil)],
      [Build |-> Ptr(<<"2">>), Artifact |-> Art(Ptr(<<"app.jar">>), Ptr(ContentDigest(RefContent)))],
      [Build |-> Nil, Artifact |-> Nil] }

\* builds.Builds as GetBuilds can return it
BuildLists == UNION { [1..n -> BuildRecs] : n \in 0..MaxBuilds }

\* values of the -build and -since flags
BuildArgs == { <<>>, <<"latest">>, <<"first">>, <<"1">>, <<"2">>, <<"7">> }

RECURSIVE ScanBuilds(_, _, _)
\* the range loop of FindBuildIndex from the zero-based index i on
ScanBuilds(builds, build, i) ==
    IF i >= Len(builds) THEN -1
    ELSE IF String(builds[i + 1].Build) = build THEN i
    ELSE ScanBuilds(builds, build, i + 1)

\* mutant: "latest" resolves to the first build
FindBuildIndexLatestIsFirst(builds, build) ==
    IF Len(builds) = 0 THEN -1
    ELSE IF build = <<>> \/ build = <<"latest">> THEN 0
    ELSE IF build = <<"first">> THEN 0
    ELSE ScanBuilds(builds, build, 0)

\* Builds.FindBuildIndex(build), zero-based
FindBuildIndex(builds, build) ==
    IF Len(builds) = 0 THEN -1
    ELSE IF build = <<>> \/ build = <<"latest">> THEN Len(builds) - 1
    ELSE IF build = <<"first">> THEN 0
    ELSE ScanBuilds(builds, build, 0)

\* Builds.FindBuild(build): nil or a pointer to the build
FindBuild(builds, build) ==
    LET i == FindBuildIndex(builds, build)
    IN  IF i < 0 THEN Nil ELSE Ptr(builds[i + 1])

FindIdle ==
    /\ fbPc = "done"
    /\ fbBuilds = <<>>
    /\ fbArg = <<>>
    /\ fbIdx = -1
    /\ fbBuild = Nil

TwinIdle ==
    /\ twinPc = "done"
    /\ twinArt = Nil
    /\ twinSw = [q \in BOOLEAN |-> NewStatusWriter(q)]
    /\ twinFed = 0
    /\ twinRes = [q \in BOOLEAN |-> NoResult]

\* ------------------------------------------------------------ command line
\* exit status of a process that is still running
NotExited == -1

\* exit status of a process whose main function returns
MainReturns == 0

\* values of -server: not given, a URL, a string url.Parse rejects
Servers == { <<>>, <<"http://papermc">>, <<"%zz">> }

\* url.Parse(server) succeeds
ParseOk(server) == server # <<"%zz">>

\* values of -project: not given, a project
Projects == { <<>>, <<"paper">> }

\* the subcommand flaggy marks as Used, if any
Subcommands == { "none", "get", "download" }

\* the version the handlers resolve when -project-version is not given
Version == <<"1.20">>

\* flaggy's ShowHelpWithMessage: prints the message and returns
ShowHelpWithMessage(msgs, m) == Append(msgs, m)

\* the source URL Download builds from its arguments, by component
SrcURL(server, project, version, build, name) ==
    [server |-> server, project |-> project, version |-> version, build |-> build,
     name |-> name]

NoSrc == SrcURL(<<>>, <<>>, <<>>, <<>>, <<>>)

\* mutant: the listing stops before the -since build
GetIterStopsBeforeFinal(cur, final) ==
    LET next == cur - 1
    IN  [cur |-> next, stop |-> next < 0 \/ next <= final]

\* the end of one iteration of the get handler's loop: the decrement and the
\* two break tests
GetIter(cur, final) ==
    LET next == cur - 1
    IN  [cur |-> next, stop |-> next < 0 \/ next < final]

CliIdle ==
    /\ cliPc = "exit"
    /\ cliFlags = [server |-> <<>>, project |-> <<>>, used |-> "none"]
    /\ cliBuild = <<>>
    /\ cliBuilds = <<>>
    /\ cliCur = -1
    /\ cliFinal = -1
    /\ cliPrinted = <<>>
    /\ cliHandlers = <<>>
    /\ cliMsgs = <<>>
    /\ cliExit = MainReturns
    /\ cliSrc = NoSrc
    /\ cliArtBuild = <<>>

\* destinations a process can find: an empty directory, a directory holding
\* the file of an earlier download, no directory
CliDestinations ==
    { [dir |-> TRUE, file |-> Nil], [dir |-> TRUE, file |-> Ptr(RefContent)],
      [dir |-> FALSE, file |-> Nil] }

\* the process starts: nothing parsed, nothing run
CliInit ==
    /\ pc = "idle"
    /\ calls = 0
    /\ args = [artifact |-> Nil, replace |-> FALSE, quiet |-> FALSE]
    /\ fs \in CliDestinations
    /\ sw = NewStatusWriter(FALSE)
    /\ written = <<>>
    /\ lastN = 0
    /\ out = <<>>
    /\ ops = <<>>
    /\ result = NoResult
    /\ fileAtStart = Nil
    /\ prevOk = FALSE
    /\ cliPc = "start"
    /\ cliFlags = [server |-> <<>>, project |-> <<>>, used |-> "none"]
    /\ cliBuild = <<>>
    /\ cliBuilds = <<>>
    /\ cliCur = -1
    /\ cliFinal = -1
    /\ cliPrinted = <<>>
    /\ cliHandlers = <<>>
    /\ cliMsgs = <<>>
    /\ cliExit = NotExited
    /\ cliSrc = NoSrc
    /\ cliArtBuild = <<>>
    /\ TwinIdle
    /\ FindIdle

\* main returns after showing the messages msgs
CliReturn(msgs) ==
    /\ cliPc' = "exit"
    /\ cliMsgs' = msgs
    /\ cliExit' = MainReturns

\* main up to the call of the handler of the subcommand used: the flags are
\* parsed and checked
Main(server, project, used) ==
    /\ cliPc = "start"
    /\ cliFlags' = [server |-> server, project |-> project, used |-> used]
    /\ LET m1 == IF project = <<>>
                 THEN ShowHelpWithMessage(cliMsgs, "-project is required")
                 ELSE cliMsgs
       IN  IF server = <<>>
           THEN /\ CliReturn(ShowHelpWithMessage(cliMsgs, "-server is required"))
                /\ UNCHANGED cliHandlers
           ELSE IF ~ParseOk(server)
           THEN /\ CliReturn(ShowHelpWithMessage(m1, "parse url"))
                /\ UNCHANGED cliHandlers
           ELSE IF used = "none"
           THEN /\ CliReturn(m1)
                /\ UNCHANGED cliHandlers
           ELSE /\ cliPc' = used
                /\ cliMsgs' = m1
                /\ cliHandlers' = Append(cliHandlers, used)
                /\ UNCHANGED cliExit
    /\ UNCHANGED <<cliBuild, cliBuilds, cliCur, cliFinal, cliPrinted, cliSrc, cliArtBuild>>
    /\ UNCHANGED dlVars

\* the handler returned err to main, which shows it and returns
HandlerFails(name, err) ==
    CliReturn(ShowHelpWithMessage(cliMsgs, <<"cmd", name, err>>))

\* the get handler up to its loop: the metadata is fetched and the indexes of
\* -build and -since are resolved
GetHandler(build, since, fetched, builds, rawJson) ==
    /\ cliPc = "get"
    /\ cliBuild' = build
    /\ LET cur   == FindBuildIndex(builds, build)
           final == FindBuildIndex(builds, since)
       IN  IF ~fetched
           THEN HandlerFails("get", "fetch") /\ UNCHANGED <<cliBuilds, cliCur, cliFinal>>
           ELSE IF rawJson
           THEN CliReturn(cliMsgs) /\ UNCHANGED <<cliBuilds, cliCur, cliFinal>>
           ELSE IF Len(builds) = 0
           THEN HandlerFails("get", "no builds") /\ UNCHANGED <<cliBuilds, cliCur, cliFinal>>
           ELSE IF cur < 0
           THEN HandlerFails("get", "-build not found") /\ UNCHANGED <<cliBuilds, cliCur, cliFinal>>
           ELSE IF final < 0
           THEN HandlerFails("get", "-since not found") /\ UNCHANGED <<cliBuilds, cliCur, cliFinal>>
           ELSE /\ cliPc' = "loop"
                /\ cliBuilds' = builds
                /\ cliCur' = cur
                /\ cliFinal' = final
                /\ UNCHANGED <<cliMsgs, cliExit>>
    /\ UNCHANGED <<cliFlags, cliPrinted, cliHandlers, cliSrc, cliArtBuild>>
    /\ UNCHANGED dlVars

\* one iteration of the get handler's loop: a build is printed, then the
\* index moves down or the handler returns nil
GetLoop ==
    /\ cliPc = "loop"
    /\ cliPrinted' = Append(cliPrinted, cliCur)
    /\ LET it == GetIter(cliCur, cliFinal)
       IN  /\ cliCur' = it.cur
           /\ IF it.stop THEN CliReturn(cliMsgs) ELSE UNCHANGED <<cliPc, cliMsgs, cliExit>>
    /\ UNCHANGED <<cliFlags, cliBuild, cliBuilds, cliFinal, cliHandlers, cliSrc, cliArtBuild>>
    /\ UNCHANGED dlVars

\* the download handler up to and including its call of Download: the
\* metadata is fetched, -build is resolved, dstdir is checked
DownloadHandler(build, fetched, builds, replace, quiet, fault) ==
    /\ cliPc = "download"
    /\ cliBuild' = build
    /\ LET idx == FindBuildIndex(builds, build)
       IN  IF ~fetched
           THEN HandlerFails("download", "fetch") /\ UNCHANGED <<dlVars, cliSrc, cliArtBuild>>
           ELSE IF Len(builds) = 0
           THEN HandlerFails("download", "no builds") /\ UNCHANGED <<dlVars, cliSrc, cliArtBuild>>
           ELSE IF idx < 0
           THEN HandlerFails("download", "-build not found")
                /\ UNCHANGED <<dlVars, cliSrc, cliArtBuild>>
           ELSE IF ~fs.dir
           THEN HandlerFails("download", "dstdir") /\ UNCHANGED <<dlVars, cliSrc, cliArtBuild>>
           ELSE LET b == builds[idx + 1]
                IN  /\ DownloadCall(b.Artifact, replace, quiet, fault)
                    /\ cliPc' = "inDownload"
                    /\ cliArtBuild' = String(b.Build)
                    /\ cliSrc' = IF BadArtifact(b.Artifact) THEN NoSrc
                                 ELSE SrcURL(cliFlags.server, cliFlags.project, Version,
                                             build, ArtName(b.Artifact))
                    /\ UNCHANGED <<cliMsgs, cliExit>>
    /\ UNCHANGED <<cliFlags, cliBuilds, cliCur, cliFinal, cliPrinted, cliHandlers>>

\* Download returned to the download handler, the handler to main
DownloadReturns ==
    /\ cliPc = "inDownload"
    /\ pc = "done"
    /\ IF result.kind # "ok"
       THEN HandlerFails("download", result.kind)
       ELSE CliReturn(cliMsgs)
    /\ UNCHANGED <<cliFlags, cliBuild, cliBuilds, cliCur, cliFinal, cliPrinted, cliHandlers,
                   cliSrc, cliArtBuild>>
    /\ UNCHANGED dlVars

\* what a transfer step leaves alone in a run of the command line tool
InDownload == cliPc = "inDownload" /\ UNCHANGED <<cliVars, twinVars, findVars>>

CliNext ==
    \/ /\ cliPc = "start"
       /\ \E server \in Servers, project \in Projects, used \in Subcommands :
             Main(server, project, used)
       /\ UNCHANGED <<twinVars, findVars>>
    \/ /\ cliPc = "get"
       /\ \E build \in BuildArgs, since \in BuildArgs, fetched \in BOOLEAN,
             builds \in BuildLists, rawJson \in BOOLEAN :
             GetHandler(build, since, fetched, builds, rawJson)
       /\ UNCHANGED <<twinVars, findVars>>
    \/ GetLoop /\ UNCHANGED <<twinVars, findVars>>
    \/ /\ cliPc = "download"
       /\ \E build \in BuildArgs, fetched \in BOOLEAN, builds \in BuildLists,
             replace \in BOOLEAN, quiet \in BOOLEAN, fault \in Faults :
             DownloadHandler(build, fetched, builds, replace, quiet, fault)
       /\ UNCHANGED <<twinVars, findVars>>
    \/ \E data \in Chunks : StreamChunk(data) /\ Len(written) < CliMaxChunks /\ InDownload
    \/ StreamFail /\ InDownload
    \/ StreamEnd /\ InDownload
    \/ DownloadReturns /\ UNCHANGED <<twinVars, findVars>>

\* the process is scheduled until main returns
CliSpec == CliInit /\ [][CliNext]_vars /\ WF_vars(CliNext)

\* ---------------------------------------------------------------- FindSpec
FindInit ==
    /\ DlInit
    /\ TwinIdle
    /\ CliIdle
    /\ fbPc = "input"
    /\ fbBuilds \in BuildLists
    /\ fbArg \in BuildArgs
    /\ fbIdx = -1
    /\ fbBuild = Nil

\* FindBuildIndex and FindBuild are applied to the inputs
FindApply ==
    /\ fbPc = "input"
    /\ fbPc' = "done"
    /\ fbIdx' = FindBuildIndex(fbBuilds, fbArg)
    /\ fbBuild' = FindBuild(fbBuilds, fbArg)
    /\ UNCHANGED <<fbBuilds, fbArg>>

FindNext == FindApply /\ UNCHANGED <<dlVars, twinVars, cliVars>>

FindSpec == FindInit /\ [][FindNext]_vars

\* -------------------------------------------------------------------- Spec
Init == DlInit /\ TwinIdle /\ FindIdle /\ CliIdle

Next ==
    \/ /\ pc \in {"idle", "done"}
       /\ \E artifact \in Artifacts, replace \in BOOLEAN, quiet \in BOOLEAN, fault \in Faults :
             DownloadCall(artifact, replace, quiet, fault)
       /\ UNCHANGED <<twinVars, findVars, cliVars>>
    \/ \E data \in Chunks : StreamChunk(data) /\ UNCHANGED <<twinVars, findVars, cliVars>>
    \/ StreamFail /\ UNCHANGED <<twinVars, findVars, cliVars>>
    \/ StreamEnd /\ UNCHANGED <<twinVars, findVars, cliVars>>

Spec == Init /\ [][Next]_vars

\* ---------------------------------------------------------------- TwinSpec
\* artifacts that pass the checks at the head of Download with a usable name
GoodArtifacts ==
    { a \in Artifacts : ~BadArtifact(a) /\ ArtName(a) # <<>> }

TwinInit ==
    /\ DlInit
    /\ FindIdle
    /\ CliIdle
    /\ twinPc = "transfer"
    /\ twinArt \in GoodArtifacts
    /\ twinSw = [q \in BOOLEAN |-> NewStatusWriter(q)]
    /\ twinFed = 0
    /\ twinRes = [q \in BOOLEAN |-> NoResult]

\* both transfers receive the chunk data
TwinChunk(data) ==
    /\ twinPc = "transfer"
    /\ twinFed < MaxChunks
    /\ twinFed' = twinFed + 1
    /\ twinSw' = [q \in BOOLEAN |-> Write(twinSw[q], data).sw]
    /\ UNCHANGED <<twinPc, twinArt, twinRes>>

\* both transfers complete and are verified
TwinEnd ==
    /\ twinPc = "transfer"
    /\ twinPc' = "done"
    /\ twinRes' = [q \in BOOLEAN |-> Verify(SumHex(twinSw[q].sha256), twinArt)]
    /\ UNCHANGED <<twinArt, twinSw, twinFed>>

TwinNext ==
    \/ \E data \in Chunks : TwinChunk(data) /\ UNCHANGED <<dlVars, findVars, cliVars>>
    \/ TwinEnd /\ UNCHANGED <<dlVars, findVars, cliVars>>

TwinSpec == TwinInit /\ [][TwinNext]_vars

\* ------------------------------------------------------------- properties
\* the current invocation got through the transfer without an I/O error
Completed == pc = "done" /\ result.kind \in {"ok", "ChecksumMismatch"}

\* Application.Sha256 of the current invocation's artifact
ShaPtr == Deref(Deref(args.artifact).Application).Sha256

\* what the pre-flight os.Stat of the current invocation returned
StatRes == IF ops = <<>> THEN "none" ELSE ops[1].res

\* what the pre-flight os.Remove of the current invocation returned
RemoveRes == IF Len(ops) >= 2 /\ ops[2].op = "remove" THEN ops[2].res ELSE "none"

\* the current invocation called dlstream.DownloadStream
Streamed == \E i \in DOMAIN ops : ops[i].op = "stream"

\* C1: after a transfer without I/O error Download succeeds exactly when the
\* expected checksum is absent, empty or equal to the lowercase hex digest of
\* the streamed bytes; otherwise it fails with ChecksumMismatch carrying the
\* computed and the expected digest; content other than the advertised one
\* with a non-empty checksum is a mismatch.
C1_ChecksumVerdict ==
    Completed =>
        LET computed == ContentDigest(Flatten(written))
        IN  /\ (result.kind = "ok") <=>
                   (ShaPtr = Nil \/ Deref(ShaPtr) = <<>> \/ Deref(ShaPtr) = computed)
            /\ result.kind = "ChecksumMismatch" =>
                   result.computed = computed /\ result.expected = Deref(ShaPtr)
            /\ (ShaPtr = Ptr(ContentDigest(RefContent)) /\ Flatten(written) # RefContent) =>
                   result.kind = "ChecksumMismatch"
            /\ (ShaPtr = Nil \/ Deref(ShaPtr) = <<>>) => result.kind = "ok"

C1_Witness ==
    /\ Completed
    /\ result.kind = "ok"
    /\ ShaPtr = Ptr(ContentDigest(RefContent))
    /\ Len(written) >= 2

\* C2: when the pre-flight check finds the destination and replace is not
\* set, Download fails with DestinationExists and DownloadStream is never
\* called (no chunk is streamed); a download that follows a successful one of
\* the same artifact without replace finds the destination and so fails the
\* same way, without a transfer.
C2_DestinationExists ==
    /\ (pc # "idle" /\ StatRes = "ok" /\ ~args.replace) =>
           /\ pc = "done"
           /\ result.kind = "DestinationExists"
           /\ ~Streamed
           /\ written = <<>>
    /\ (pc # "idle" /\ prevOk /\ ~args.replace /\ ~BadArtifact(args.artifact)
          /\ ArtName(args.artifact) = <<"app.jar">>) =>
           /\ StatRes \in {"ok", "error"}
           /\ ~Streamed
           /\ written = <<>>
           /\ StatRes = "ok" => result.kind = "DestinationExists"

C2_Witness ==
    /\ pc = "done"
    /\ calls = 2
    /\ prevOk
    /\ ~args.replace
    /\ result.kind = "DestinationExists"

\* the artifact carries no non-empty name
NoName(artifact) == BadArtifact(artifact) \/ ArtName(artifact) = <<>>

\* C3: for an artifact without a non-empty name (descriptor, application or
\* name absent, or name empty) Download fails with BadArtifact before any
\* filesystem or network operation.
C3_BadArtifactBeforeAnyActivity ==
    (pc # "idle" /\ NoName(args.artifact)) =>
        /\ pc = "done"
        /\ result.kind = "BadArtifact"
        /\ ops = <<>>

\* C4: whenever DownloadStream is called there is no file at the destination
\* (under replace an existing one was removed first), the file is built from
\* empty by the streamed chunks alone, and after a successful download its
\* content and digest are those of the streamed bytes, whatever was there
\* before.
C4_FreshDestination ==
    /\ Streamed => fileAtStart = Nil
    /\ (Streamed /\ StatRes = "ok") =>
           ops = <<Op("stat", "ok"), Op("remove", "ok"), Op("stream", "started")>>
    /\ (pc = "transfer" /\ CanWrite(fs, args.artifact)) => fs.file = Ptr(Flatten(written))
    /\ (pc = "done" /\ result.kind = "ok") =>
           /\ fs.file = Ptr(Flatten(written))
           /\ SumHex(sw.sha256) = ContentDigest(Flatten(written))

C4_Witness ==
    /\ pc = "done"
    /\ result.kind = "ok"
    /\ RemoveRes = "ok"
    /\ prevOk
    /\ written # <<>>

\* C5: when os.Stat fails with an error other than "not found", or os.Remove
\* of the existing destination fails, Download returns FilesystemError and
\* DownloadStream is never called; "not found" is no error and the transfer
\* is started.
C5_PreflightFailureIsFatal ==
    /\ (pc # "idle" /\ (StatRes = "error" \/ RemoveRes = "error")) =>
           /\ pc = "done"
           /\ result.kind = "FilesystemError"
           /\ ~Streamed
           /\ written = <<>>
    /\ (pc # "idle" /\ StatRes = "notexist") =>
           /\ Streamed
           /\ result.kind \notin {"FilesystemError", "DestinationExists", "BadArtifact"}

C5_Witness ==
    /\ pc = "done"
    /\ RemoveRes = "error"
    /\ args.replace
    /\ result.kind = "FilesystemError"

\* C6: at every point of every transfer, quiet or not, the byte counter is the
\* sum of the lengths of the chunks the SHA-256 accumulator received, the
\* accumulator received exactly the chunks passed to Write, once each and in
\* order, its state is that of all of them (never reset), and Write returned
\* the full length of the last chunk.
C6_CounterMatchesDigestInput ==
    /\ sw.total = SumLens(sw.sha256.writes)
    /\ sw.sha256.writes = written
    /\ sw.sha256.state = Flatten(written)
    /\ written # <<>> => lastN = written[Len(written)].n

C6_Witness ==
    /\ pc = "transfer"
    /\ sw.quiet
    /\ Len(written) >= 2
    /\ sw.total > Threshold

\* C7: when a transfer completes, the byte counter is the byte length of the
\* content that was transferred and the digest is the digest of that content,
\* however the content was cut into chunks.
C7_TotalIndependentOfChunking ==
    Completed =>
        /\ sw.total = ContentLen(Deref(fs.file))
        /\ sw.total = ContentLen(Flatten(written))
        /\ SumHex(sw.sha256) = ContentDigest(Deref(fs.file))

C7_Witness ==
    /\ Completed
    /\ Len(written) >= 2
    /\ Deref(fs.file) = RefContent
    /\ \A i \in DOMAIN written : written[i].n # 0

\* a Write call of a writer that is not quiet
C8_Step ==
    (Len(written') = Len(written) + 1 /\ ~sw.quiet) =>
        LET reached == sw'.total - sw.last >= Threshold
        IN  /\ reached => /\ out' = Append(out, Line("progress", sw'.total))
                          /\ sw'.last = sw'.total
            /\ ~reached => /\ out' = out
                           /\ sw'.last = sw.last

\* between Write calls of a writer that is not quiet
C8_Inv ==
    /\ ~sw.quiet => sw.total - sw.last < Threshold
    /\ (pc = "transfer" /\ ~sw.quiet /\ \A i \in DOMAIN written : written[i].n = Threshold) =>
           Len(out) = Len(written)

\* C8: a Write that is not quiet prints a progress line exactly when the
\* bytes counted since the last line, the chunk included, are at least
\* 256,000, and then sets last to total, so that total - last < 256,000 after
\* every such Write; a stream of chunks of exactly 256,000 bytes prints one
\* line per chunk.
C8_ProgressThreshold == [](C8_Inv) /\ [][C8_Step]_vars

C8_Witness ==
    /\ pc = "transfer"
    /\ ~sw.quiet
    /\ Len(written) >= 2
    /\ \A i \in DOMAIN written : written[i].n = Threshold
    /\ Len(out) = Len(written)

\* C9: a quiet download prints nothing, neither a progress line nor the final
\* summary line; the summary line is printed only when quiet is not set.
C9_QuietPrintsNothing ==
    (pc # "idle" /\ args.quiet) => out = <<>>

\* C10: given the same chunks and the same artifact, the quiet and the
\* non-quiet transfer have the same byte total and the same digest at every
\* point, and Download returns the same result for both.
C10_QuietDoesNotChangeVerdict ==
    /\ twinSw[TRUE].total = twinSw[FALSE].total
    /\ SumHex(twinSw[TRUE].sha256) = SumHex(twinSw[FALSE].sha256)
    /\ twinRes[TRUE] = twinRes[FALSE]

C10_Witness ==
    /\ twinPc = "done"
    /\ twinFed >= 2
    /\ twinRes[TRUE].kind = "ChecksumMismatch"
    /\ twinSw[FALSE].last > 0
    /\ twinSw[TRUE].last = 0

\* the step in which Download returns after the transfer was started
C11_Step ==
    (pc = "transfer" /\ pc' = "done") => fs' = fs

\* the destination after a failed download that had started its transfer
C11_Inv ==
    (pc = "done" /\ result.kind \in {"TransferFailed", "ChecksumMismatch"}
        /\ CanWrite(fs, args.artifact)) =>
        fs.file = Ptr(Flatten(written))

\* C11: Download does not touch the destination when it returns after the
\* transfer was started: after an I/O error the file holds the bytes written
\* so far, after a checksum mismatch it holds all the streamed bytes.
C11_NoCompensation == [](C11_Inv) /\ [][C11_Step]_vars

C11_Witness ==
    /\ pc = "done"
    /\ result.kind = "ChecksumMismatch"
    /\ written # <<>>
    /\ fs.file = Ptr(Flatten(written))

\* a Write call
C13_Step ==
    Len(written') = Len(written) + 1 =>
        /\ sw'.total >= sw.total
        /\ sw'.last >= sw.last

\* last is zero or the total printed by an earlier progress line
C13_Inv ==
    /\ 0 <= sw.last
    /\ sw.last <= sw.total
    /\ \/ sw.last = 0
       \/ \E i \in DOMAIN out : out[i] = Line("progress", sw.last)

\* C13: over the Write calls of a transfer total never decreases, last never
\* decreases, 0 <= last <= total, and last is only ever a value total had when
\* a progress line was printed.
C13_MonotoneCounters == [](C13_Inv) /\ [][C13_Step]_vars

C13_Witness ==
    /\ pc = "transfer"
    /\ Len(written) >= 2
    /\ sw.last > 0
    /\ sw.last < sw.total

\* the download handler ran and Download returned an error to it
DownloadFailed ==
    /\ cliPc = "exit"
    /\ cliHandlers = <<"download">>
    /\ pc = "done"
    /\ result.kind \in {"BadArtifact", "DestinationExists", "FilesystemError",
                        "TransferFailed", "ChecksumMismatch"}

\* C12: when Download returns an error to the download command, the error is
\* shown to the user and the process exits with a non-zero status.
C12_ErrorExitsNonZero ==
    DownloadFailed =>
        /\ cliMsgs # <<>>
        /\ cliMsgs[Len(cliMsgs)] = <<"cmd", "download", result.kind>>
        /\ cliExit # 0

\* C14: whatever -build is, the build component of the source URL Download
\* requests is the number of the build whose artifact Download was given.
C14_UrlBuildIsResolvedBuild ==
    cliSrc # NoSrc => cliSrc.build = cliArtBuild

\* one-based positions of the builds whose number reads as the argument
Matches(builds, build) == { i \in 1..Len(builds) : String(builds[i].Build) = build }

\* the least element of a non-empty set of integers
Least(S) == CHOOSE x \in S : \A y \in S : x <= y

\* C15: FindBuildIndex returns -1 for an empty list, otherwise the last index
\* for "" and "latest", 0 for "first", for any other argument the lowest index
\* whose build number reads as the argument, and -1 when there is none; the
\* result is in -1..len-1; FindBuild returns nil exactly when the index is
\* negative and otherwise the build at the index.
C15_FindBuildIndex ==
    fbPc = "done" =>
        LET n == Len(fbBuilds)
            m == Matches(fbBuilds, fbArg)
        IN  /\ fbIdx \in -1..(n - 1)
            /\ n = 0 => fbIdx = -1
            /\ (n > 0 /\ fbArg \in {<<>>, <<"latest">>}) => fbIdx = n - 1
            /\ (n > 0 /\ fbArg = <<"first">>) => fbIdx = 0
            /\ (n > 0 /\ fbArg \notin {<<>>, <<"latest">>, <<"first">>}) =>
                   fbIdx = IF m = {} THEN -1 ELSE Least(m) - 1
            /\ (fbBuild = Nil) <=> (fbIdx < 0)
            /\ fbIdx >= 0 => fbBuild = Ptr(fbBuilds[fbIdx + 1])

C15_Witness ==
    /\ fbPc = "done"
    /\ fbArg = <<"2">>
    /\ fbIdx >= 1
    /\ Cardinality(Matches(fbBuilds, fbArg)) >= 2

\* the indexes the listing prints in all: from the -build index down to the
\* -since index, the -build index alone when the -since index is above it
Listing(start, final) ==
    IF final > start THEN <<start>> ELSE [i \in 1..(start - final + 1) |-> start - (i - 1)]

\* what the get handler has printed is a prefix of the listing, all of it
\* once the handler has returned
C16_Inv ==
    cliPrinted # <<>> =>
        LET all == Listing(FindBuildIndex(cliBuilds, cliBuild), cliFinal)
        IN  /\ Len(cliPrinted) <= Len(all)
            /\ cliPrinted = SubSeq(all, 1, Len(cliPrinted))
            /\ \A i \in DOMAIN cliPrinted : cliPrinted[i] \in 0..(Len(cliBuilds) - 1)
            /\ cliPc = "exit" => cliPrinted = all

\* C16: the listing loop of the get command terminates; it prints the build
\* at the -build index and then every lower index in descending order down to
\* the -since index, or the -build index alone when the -since index is not
\* below it; no index twice, every index inside the build list.
C16_ListingTerminates == [](C16_Inv) /\ ((cliPc = "loop") ~> (cliPc = "exit"))

C16_Witness ==
    /\ cliPc = "exit"
    /\ Len(cliPrinted) >= 2
    /\ cliFinal >= 1
    /\ cliPrinted[Len(cliPrinted)] = cliFinal

\* C17: no subcommand handler runs when -server or -project is empty, and at
\* most one handler runs in an invocation.
C17_RequiredFlags ==
    /\ cliHandlers # <<>> => (cliFlags.server # <<>> /\ cliFlags.project # <<>>)
    /\ Len(cliHandlers) <= 1

====
